---- MODULE Spec2Model ----
(***************************************************************************)
(* Model of pystreng's Eurocode 2 chapter 6 shear formulas, VRdmax and     *)
(* VRdc (src/src/pystreng/codes/eurocodes/ec2/ch6/shear.py).               *)
(*                                                                         *)
(* The functions compute on Python floats, that is IEEE 754 binary64       *)
(* numbers with round-to-nearest-even.  The model keeps that arithmetic:   *)
(* a float is a sign, a 53 bit significand and an exponent, and every      *)
(* *, /, + and - of the source is the correctly rounded operation.  The    *)
(* significands exceed the integers of the model checker, so they are      *)
(* kept as little-endian sequences of 14 bit limbs.                        *)
(***************************************************************************)
EXTENDS Integers, Sequences, FiniteSets, TLC

(***************************************************************************)
(* Natural numbers of any size: little-endian limb sequences, no leading   *)
(* zero limb, << >> is zero.                                               *)
(***************************************************************************)
LimbBits == 7 + 7
Base == 2 ^ LimbBits

RECURSIVE Trim(_)
Trim(a) ==
  IF a = << >> THEN a
  ELSE IF a[Len(a)] = 0 THEN Trim(SubSeq(a, 1, Len(a) - 1)) ELSE a

Limb(a, i) == IF i <= Len(a) THEN a[i] ELSE 0

BigFromInt(n) ==
  IF n = 0 THEN << >>
  ELSE IF n < Base THEN << n >>
  ELSE IF n < Base * Base THEN << n % Base, n \div Base >>
  ELSE << n % Base, (n \div Base) % Base, n \div (Base * Base) >>

RECURSIVE BigAddC(_, _, _, _)
BigAddC(a, b, i, c) ==
  IF i > Len(a) /\ i > Len(b)
  THEN IF c = 0 THEN << >> ELSE << c >>
  ELSE LET s == Limb(a, i) + Limb(b, i) + c
       IN  << s % Base >> \o BigAddC(a, b, i + 1, s \div Base)

BigAdd(a, b) == BigAddC(a, b, 1, 0)

\* a - b for a >= b
RECURSIVE BigSubC(_, _, _, _)
BigSubC(a, b, i, c) ==
  IF i > Len(a) THEN << >>
  ELSE LET s == Limb(a, i) - Limb(b, i) - c
       IN  IF s < 0 THEN << s + Base >> \o BigSubC(a, b, i + 1, 1)
                    ELSE << s >> \o BigSubC(a, b, i + 1, 0)

BigSub(a, b) == Trim(BigSubC(a, b, 1, 0))

\* -1, 0, 1 as a < b, a = b, a > b
RECURSIVE BigCmpFrom(_, _, _)
BigCmpFrom(a, b, i) ==
  IF i = 0 THEN 0
  ELSE IF a[i] < b[i] THEN -1
  ELSE IF a[i] > b[i] THEN 1
  ELSE BigCmpFrom(a, b, i - 1)

BigCmp(a, b) ==
  IF Len(a) < Len(b) THEN -1
  ELSE IF Len(a) > Len(b) THEN 1
  ELSE BigCmpFrom(a, b, Len(a))

\* a * k for 0 <= k <= Base
RECURSIVE BigMulSmallC(_, _, _, _)
BigMulSmallC(a, k, i, c) ==
  IF i > Len(a)
  THEN IF c = 0 THEN << >> ELSE << c >>
  ELSE LET s == a[i] * k + c
       IN  << s % Base >> \o BigMulSmallC(a, k, i + 1, s \div Base)

BigMulSmall(a, k) == IF k = 0 THEN << >> ELSE BigMulSmallC(a, k, 1, 0)

Zeros(n) == [i \in 1..n |-> 0]

RECURSIVE BigMulFrom(_, _, _)
BigMulFrom(a, b, j) ==
  IF j > Len(b) THEN << >>
  ELSE BigAdd(Zeros(j - 1) \o BigMulSmall(a, b[j]), BigMulFrom(a, b, j + 1))

BigMul(a, b) == IF a = << >> \/ b = << >> THEN << >> ELSE Trim(BigMulFrom(a, b, 1))

RECURSIVE SmallBitLen(_)
SmallBitLen(n) == IF n = 0 THEN 0 ELSE 1 + SmallBitLen(n \div 2)

BitLen(a) == IF a = << >> THEN 0 ELSE LimbBits * (Len(a) - 1) + SmallBitLen(a[Len(a)])

\* a * 2^n
BigShl(a, n) ==
  IF a = << >> THEN a
  ELSE Zeros(n \div LimbBits) \o BigMulSmall(a, 2 ^ (n % LimbBits))

\* a \div 2^n
BigShr(a, n) ==
  LET q == n \div LimbBits
      t == n % LimbBits
      lo == 2 ^ t
      hi == 2 ^ (LimbBits - t)
  IN  IF q >= Len(a) THEN << >>
      ELSE Trim([i \in 1..(Len(a) - q) |->
                   (a[i + q] \div lo) + (Limb(a, i + q + 1) % lo) * hi])

\* bit n of a, bit 0 the lowest
BigBit(a, n) == (Limb(a, n \div LimbBits + 1) \div (2 ^ (n % LimbBits))) % 2

\* whether a bit below bit n of a is set
BigLowBits(a, n) ==
  LET q == n \div LimbBits
      t == n % LimbBits
  IN  \/ \E i \in 1..q : Limb(a, i) # 0
      \/ Limb(a, q + 1) % (2 ^ t) # 0

BigOdd(a) == a # << >> /\ a[1] % 2 = 1

(***************************************************************************)
(* Python floats.  k is "fin" (the value (-1)^s * m * 2^e, m # 0), "zero", *)
(* "inf" or "nan".  A finite float is kept canonical: m has MantBits bits, *)
(* or fewer with e = MinExp (a subnormal).                                 *)
(*                                                                         *)
(* The operations hand each intermediate result on as an argument of the   *)
(* operator that continues the computation.                                *)
(***************************************************************************)
MantBits == 53
MinExp == -1074
MaxExp == 971

Fin(s, m, e) == [k |-> "fin", s |-> s, m |-> m, e |-> e]
Zero(s) == [k |-> "zero", s |-> s, m |-> << >>, e |-> 0]
Inf(s) == [k |-> "inf", s |-> s, m |-> << >>, e |-> 0]
NaN == [k |-> "nan", s |-> 0, m |-> << >>, e |-> 0]

\* a division that never sees a zero divisor
NoZeroSeen(x) == FALSE

IsZero(x) == x.k = "zero"
IsFinite(x) == x.k \in {"fin", "zero"}

Max2(a, b) == IF a >= b THEN a ELSE b

\* the float (-1)^s * m * 2^e for m of at most MantBits bits: infinity past the range
Pack(s, m, e) ==
  IF m = << >> THEN Zero(s)
  ELSE IF e > MaxExp THEN Inf(s)
  ELSE Fin(s, m, e)

\* a rounded significand q that may have grown to MantBits + 1 bits
Renorm(s, q, e) ==
  IF BitLen(q) > MantBits THEN Pack(s, BigShr(q, 1), e + 1) ELSE Pack(s, q, e)

\* round to nearest, ties to even: M loses its r >= 1 low bits, q is M \div 2^r
RoundDrop(s, M, r, q, e) ==
  IF BigBit(M, r - 1) = 1 /\ (BigLowBits(M, r - 1) \/ BigOdd(q))
  THEN Renorm(s, BigAdd(q, << 1 >>), e)
  ELSE Renorm(s, q, e)

\* the float of exponent E nearest to (-1)^s * M * 2^e
RoundTo(s, M, e, E) ==
  IF E <= e THEN Pack(s, BigShl(M, e - E), E)
  ELSE RoundDrop(s, M, E - e, BigShr(M, E - e), E)

\* the float nearest to (-1)^s * M * 2^e (ties to even), M a natural number
RoundF(s, M, e) ==
  IF M = << >> THEN Zero(s)
  ELSE RoundTo(s, M, e, Max2(e + BitLen(M) - MantBits, MinExp))

\* float(n) of a Python int, |n| < 2^31
FromInt(n) == IF n < 0 THEN RoundF(1, BigFromInt(-n), 0) ELSE RoundF(0, BigFromInt(n), 0)

FNeg(x) == IF x.k = "nan" THEN x ELSE [x EXCEPT !.s = 1 - x.s]

Xor(a, b) == (a + b) % 2

\* x * y
FMul(x, y) ==
  IF x.k = "nan" \/ y.k = "nan" THEN NaN
  ELSE IF x.k = "inf" \/ y.k = "inf"
       THEN IF x.k = "zero" \/ y.k = "zero" THEN NaN ELSE Inf(Xor(x.s, y.s))
  ELSE IF x.k = "zero" \/ y.k = "zero" THEN Zero(Xor(x.s, y.s))
  ELSE RoundF(Xor(x.s, y.s), BigMul(x.m, y.m), x.e + y.e)

\* one step of binary long division by D: st = << remainder, quotient >>
DivStep(st, D) ==
  IF BigCmp(BigMulSmall(st[1], 2), D) >= 0
  THEN << BigSub(BigMulSmall(st[1], 2), D), BigAdd(BigMulSmall(st[2], 2), << 1 >>) >>
  ELSE << BigMulSmall(st[1], 2), BigMulSmall(st[2], 2) >>

\* n >= 1 steps, split in halves, the first half evaluated before the second starts,
\* to keep the evaluation shallow
RECURSIVE DivSteps(_, _, _)
DivSteps(st, D, n) ==
  IF n = 1 THEN DivStep(st, D)
  ELSE LET half == DivSteps(st, D, n \div 2)
       IN  IF Len(half) = 2 THEN DivSteps(half, D, n - (n \div 2)) ELSE half

DivGuard == MantBits + 3

\* the integer part of the quotient of two full significands: << remainder, quotient >>
DivStart(mx, my) ==
  IF BigCmp(mx, my) >= 0 THEN << BigSub(mx, my), << 1 >> >> ELSE << mx, << >> >>

\* the quotient with a last bit that tells whether a remainder is left
WithSticky(q, rem) == BigAdd(BigMulSmall(q, 2), IF rem = << >> THEN << >> ELSE << 1 >>)

DivRound(s, qr, e) == RoundF(s, WithSticky(qr[2], qr[1]), e)

\* x "fin" with its significand shifted up to MantBits bits
Normal(x) == Fin(x.s, BigShl(x.m, MantBits - BitLen(x.m)), x.e - (MantBits - BitLen(x.m)))

\* x / y for normal x and y
DivNormal(x, y) ==
  DivRound(Xor(x.s, y.s), DivSteps(DivStart(x.m, y.m), y.m, DivGuard),
           x.e - y.e - DivGuard - 1)

\* x / y for y # 0 (Python raises ZeroDivisionError before dividing by a zero)
FDiv(x, y) ==
  IF x.k = "nan" \/ y.k = "nan" THEN NaN
  ELSE IF x.k = "inf"
       THEN IF y.k = "inf" THEN NaN ELSE Inf(Xor(x.s, y.s))
  ELSE IF y.k = "inf" THEN Zero(Xor(x.s, y.s))
  ELSE IF x.k = "zero" THEN Zero(Xor(x.s, y.s))
  ELSE IF y.k = "zero" THEN NaN
  ELSE DivNormal(Normal(x), Normal(y))

AlignCap == 64

\* (-1)^sa * Ma * 2^e + (-1)^sb * Mb * 2^e, c the comparison of Ma with Mb
AddRound(sa, sb, Ma, Mb, e, c) ==
  IF sa = sb THEN RoundF(sa, BigAdd(Ma, Mb), e)
  ELSE IF c = 0 THEN Zero(0)
  ELSE RoundF(IF c > 0 THEN sa ELSE sb,
              IF c > 0 THEN BigSub(Ma, Mb) ELSE BigSub(Mb, Ma), e)

AddAligned(sa, sb, Ma, Mb, e) == AddRound(sa, sb, Ma, Mb, e, BigCmp(Ma, Mb))

\* a + b for a.e >= b.e; a summand more than AlignCap bits below the other only
\* tells the rounding that it is there
AddOrdered(a, b) ==
  IF a.e - b.e > AlignCap
  THEN AddAligned(a.s, b.s, BigShl(a.m, AlignCap), << 1 >>, a.e - AlignCap)
  ELSE AddAligned(a.s, b.s, BigShl(a.m, a.e - b.e), b.m, b.e)

\* x + y
FAdd(x, y) ==
  IF x.k = "nan" \/ y.k = "nan" THEN NaN
  ELSE IF x.k = "inf"
       THEN IF y.k = "inf" /\ y.s # x.s THEN NaN ELSE x
  ELSE IF y.k = "inf" THEN y
  ELSE IF x.k = "zero"
       THEN IF y.k = "zero" THEN Zero(IF x.s = 1 /\ y.s = 1 THEN 1 ELSE 0) ELSE y
  ELSE IF y.k = "zero" THEN x
  ELSE IF x.e >= y.e THEN AddOrdered(x, y) ELSE AddOrdered(y, x)

FSub(x, y) == FAdd(x, FNeg(y))

\* -1, 0, 1 as |x| < |y|, |x| = |y|, |x| > |y|, for x and y "fin"
MagCmp(x, y) ==
  IF x.e < y.e THEN -1
  ELSE IF x.e > y.e THEN 1
  ELSE BigCmp(x.m, y.m)

\* x < y
FLt(x, y) ==
  IF x.k = "nan" \/ y.k = "nan" THEN FALSE
  ELSE IF x.k = "zero" /\ y.k = "zero" THEN FALSE
  ELSE IF x.k = "zero" THEN y.s = 0
  ELSE IF y.k = "zero" THEN x.s = 1
  ELSE IF x.s # y.s THEN x.s = 1
  ELSE IF x.k = "inf" THEN y.k # "inf" /\ x.s = 1
  ELSE IF y.k = "inf" THEN y.s = 0
  ELSE IF x.s = 0 THEN MagCmp(x, y) < 0 ELSE MagCmp(x, y) > 0

\* x == y
FEq(x, y) ==
  IF x.k = "nan" \/ y.k = "nan" THEN FALSE
  ELSE IF x.k = "zero" /\ y.k = "zero" THEN TRUE
  ELSE x = y

FLe(x, y) == FLt(x, y) \/ FEq(x, y)

(***************************************************************************)
(* Powers with the exponents the source uses, 0.5, 1.5 and 1/3.  libm's    *)
(* pow is faithful to the real power; the model takes the float nearest    *)
(* to x^(p/q).                                                             *)
(***************************************************************************)
RECURSIVE BigPow(_, _)
BigPow(a, n) == IF n = 1 THEN a ELSE BigMul(a, BigPow(a, n - 1))

Bit(i) == BigShl(<< 1 >>, i)

\* (r + 2^i)^2 from r and r^2
SquareUp(r, r2, i) == BigAdd(r2, BigAdd(BigShl(r, i + 1), Bit(2 * i)))

SqrtTake(N, st, i, c2) ==
  IF BigCmp(c2, N) <= 0 THEN << BigAdd(st[1], Bit(i)), c2 >> ELSE st

\* bit i of the square root of N: st = << r, r^2 >>, r the bits above i
SqrtStep(N, st, i) == SqrtTake(N, st, i, SquareUp(st[1], st[2], i))

\* bits hi down to lo, split in halves as in DivSteps
RECURSIVE SqrtBits(_, _, _, _)
SqrtBits(N, st, hi, lo) ==
  IF hi < lo THEN st
  ELSE IF hi = lo THEN SqrtStep(N, st, hi)
  ELSE LET half == SqrtBits(N, st, hi, (hi + lo + 1) \div 2)
       IN  IF Len(half) = 2 THEN SqrtBits(N, half, ((hi + lo + 1) \div 2) - 1, lo)
           ELSE half

\* (r + 2^i)^3 from r, r^2 and r^3
CubeUp(r, r2, r3, i) ==
  BigAdd(BigAdd(r3, BigShl(BigMulSmall(r2, 3), i)),
         BigAdd(BigShl(BigMulSmall(r, 3), 2 * i), Bit(3 * i)))

CbrtTake(N, st, i, c3) ==
  IF BigCmp(c3, N) <= 0
  THEN << BigAdd(st[1], Bit(i)), SquareUp(st[1], st[2], i), c3 >>
  ELSE st

\* bit i of the cube root of N: st = << r, r^2, r^3 >>
CbrtStep(N, st, i) == CbrtTake(N, st, i, CubeUp(st[1], st[2], st[3], i))

RECURSIVE CbrtBits(_, _, _, _)
CbrtBits(N, st, hi, lo) ==
  IF hi < lo THEN st
  ELSE IF hi = lo THEN CbrtStep(N, st, hi)
  ELSE LET half == CbrtBits(N, st, hi, (hi + lo + 1) \div 2)
       IN  IF Len(half) = 3 THEN CbrtBits(N, half, ((hi + lo + 1) \div 2) - 1, lo)
           ELSE half

\* the largest r with r^q <= N, q 2 or 3
IRoot(N, q) ==
  IF q = 2 THEN SqrtBits(N, << << >>, << >> >>, BitLen(N) \div 2, 0)[1]
  ELSE CbrtBits(N, << << >>, << >>, << >> >>, BitLen(N) \div 3, 0)[1]

RootGuard == MantBits + 2

\* the root r of N rounded as r * 2^e, its last bit telling whether r^q < N
RootRound(N, r, q, e) ==
  RoundF(0, BigAdd(BigMulSmall(r, 2), IF BigCmp(BigPow(r, q), N) = 0 THEN << >> ELSE << 1 >>),
         e - 1)

RootOf(N, q, e) == RootRound(N, IRoot(N, q), q, e)

\* the q-th root of mp * 2^pe, with mp shifted up by t bits first
RootShifted(mp, pe, q, t) == RootOf(BigShl(mp, t), q, (pe - t) \div q)

\* t0 bits are needed for the guard bits; the shift makes pe - t a multiple of q
RootAligned(mp, pe, q, t0) == RootShifted(mp, pe, q, t0 + ((pe - t0) % q))

RootGuarded(mp, pe, q) == RootAligned(mp, pe, q, Max2(0, RootGuard * q - BitLen(mp) + 1))

\* the float nearest to x^(p/q), q 2 or 3, for x "fin" and positive
PowRat(x, p, q) == RootGuarded(BigPow(x.m, p), p * x.e, q)

(***************************************************************************)
(* math.pow(x, 1/3).  The exponent is the float 1/3, which is              *)
(* (2^54 - 1)/(3 * 2^54), so the power is the cube root of x times         *)
(* x^(-1/(3 * 2^54)) = 1 - ln(x)/(3 * 2^54) (the next term is below        *)
(* 2^-100).  The cube root is taken to CbrtGuard bits and ln(x) to 2^-16.  *)
(***************************************************************************)
CbrtGuard == 72
LnScale == 70
Ln2Fix == 45426

\* log2 of y / 2^14 in [1, 2), scaled by 2^14: n squarings, one bit each
RECURSIVE Log2Bits(_, _, _)
Log2Bits(y, L, n) ==
  IF n = 0 THEN L
  ELSE IF (y * y) \div (2 ^ 14) >= 2 ^ 15
       THEN Log2Bits((y * y) \div (2 ^ 15), 2 * L + 1, n - 1)
       ELSE Log2Bits((y * y) \div (2 ^ 14), 2 * L, n - 1)

TopBits(top) == top[1] + Base * Limb(top, 2)

\* ln(x) * 2^16 to the nearest few units, for normal x
LnFix(x) ==
  (x.e + MantBits - 1) * Ln2Fix
    + ((Log2Bits(TopBits(BigShr(x.m, MantBits - 15)), 0, 14) * Ln2Fix) \div (2 ^ 14))

\* 2^LnScale * (1 - c / 2^LnScale)
LnFactor(c) ==
  IF c >= 0 THEN BigSub(Bit(LnScale), BigFromInt(c)) ELSE BigAdd(Bit(LnScale), BigFromInt(-c))

ThirdRound(r, f, e) == RoundF(0, BigAdd(BigMulSmall(BigMul(r, f), 2), << 1 >>), e - LnScale - 1)

ThirdShifted(x, t) ==
  ThirdRound(IRoot(BigShl(x.m, t), 3), LnFactor(LnFix(x) \div 3), (x.e - t) \div 3)

ThirdAligned(x, t0) == ThirdShifted(x, t0 + ((x.e - t0) % 3))

\* x ** float(1/3) for x "fin" and positive
PowThird(x) == ThirdAligned(Normal(x), 3 * CbrtGuard - MantBits + 1)

\* math.pow(x, 1/3) for x >= 0
MathPowThird(x) ==
  IF x.k = "nan" THEN NaN
  ELSE IF x.k = "zero" THEN Zero(0)
  ELSE IF x.k = "inf" THEN Inf(0)
  ELSE PowThird(x)

\* x ** (p/q), Python's float power: zero and infinity first, then the rounded power
FPow(x, p, q) ==
  IF x.k = "nan" THEN NaN
  ELSE IF x.k = "zero" THEN Zero(0)
  ELSE IF x.k = "inf" THEN Inf(0)
  ELSE PowRat(x, p, q)

(***************************************************************************)
(* The float literals of the source.  A decimal literal n/10^j is the      *)
(* float nearest to it, which is what the correctly rounded quotient of    *)
(* the two integers gives.                                                 *)
(***************************************************************************)
Lit(n, d) == FDiv(FromInt(n), FromInt(d))

F1 == FromInt(1)
F1000 == FromInt(1000)
F0_001 == Lit(1, 1000)
F0_9 == Lit(9, 10)
F0_8 == Lit(8, 10)
F0_6 == Lit(6, 10)
F250 == FromInt(250)

\* math.pi, and math.tan at the angles the model calls it with (libm's values)
MathPi == Fin(0, << 11544, 4368, 8117, 1608 >>, -51)
PiOver4 == FDiv(MathPi, FromInt(4))
Theta0_4 == Lit(4, 10)

MathTan(x) ==
  CASE x.k = "zero" -> x
    [] x = PiOver4 -> Fin(0, << 16383, 16383, 16383, 2047 >>, -53)
    [] x = MathPi -> Fin(1, << 7175, 3153, 8803, 1129 >>, -105)
    [] x = Theta0_4 -> Fin(0, << 7384, 10099, 12468, 1731 >>, -54)

(***************************************************************************)
(* VRdmax                                                                  *)
(***************************************************************************)
\* a raised exception: the call returns no value
Raise(exc) == [type |-> exc]

Raised(r) == r.type \in {"ValueError", "ZeroDivisionError", "TypeError"}

VRdmaxUnits == {"N-mm-rad", "kN-m-rad"}

\* a function without the units check
UnitsRejectedNone(units) == FALSE

\* the guard of the units check
UnitsRejected(units) == units \notin VRdmaxUnits

\* variants of V1: the reduction in both branches; a floor of 0.5 under the reduction
V1AlwaysReduced(fck_, fyk_, fywk_) == FMul(F0_6, FSub(F1, FDiv(fck_, F250)))

V1Floored(fck_, fyk_, fywk_) ==
  IF FLt(fywk_, FMul(F0_8, fyk_))
  THEN F0_6
  ELSE IF FLt(FMul(F0_6, FSub(F1, FDiv(fck_, F250))), FDiv(FromInt(1), FromInt(2)))
       THEN FDiv(FromInt(1), FromInt(2))
       ELSE FMul(F0_6, FSub(F1, FDiv(fck_, F250)))

\* the strength reduction factor
V1(fck_, fyk_, fywk_) ==
  IF FLt(fywk_, FMul(F0_8, fyk_))
  THEN F0_6
  ELSE FMul(F0_6, FSub(F1, FDiv(fck_, F250)))

\* the frozen dataclass the function builds
VRdmaxResult(a, value, z, fcd, v1, tan_theta, cot_theta) ==
  [type |-> "VRdmaxResult",
   bw |-> a.bw, d |-> a.d, fck |-> a.fck, fyk |-> a.fyk, fywk |-> a.fywk,
   theta |-> a.theta, alpha_cw |-> a.alpha_cw, gamma_c |-> a.gamma_c,
   units |-> a.units,
   value |-> value, z |-> z, fcd |-> fcd, v1 |-> v1,
   tan_theta |-> tan_theta, cot_theta |-> cot_theta]

\* what the function hands back, given the record it built
Returned(res, include_intermediates) ==
  IF include_intermediates THEN res ELSE [type |-> "float", value |-> res.value]

\* lines 134-138: the value in the caller's units, the record, the return
VRdmaxReturn(a, z, fcd, v1, tan_theta, cot_theta, value) ==
  Returned(VRdmaxResult(a, IF a.units = "kN-m-rad" THEN FMul(value, F0_001) ELSE value,
                        z, fcd, v1, tan_theta, cot_theta),
           a.include_intermediates)

\* line 133, den the float tan_theta + cot_theta
VRdmaxValue(a, bw_, z, fcd, v1, tan_theta, cot_theta, den) ==
  IF IsZero(den) THEN Raise("ZeroDivisionError")
  ELSE VRdmaxReturn(a, z, fcd, v1, tan_theta, cot_theta,
                    FDiv(FMul(FMul(FMul(FMul(a.alpha_cw, bw_), z), v1), fcd), den))

VRdmaxCot(a, bw_, z, fcd, v1, tan_theta, cot_theta) ==
  VRdmaxValue(a, bw_, z, fcd, v1, tan_theta, cot_theta, FAdd(tan_theta, cot_theta))

\* line 132, the second assignment
VRdmaxTan(a, bw_, z, fcd, v1, tan_theta) ==
  IF IsZero(tan_theta) THEN Raise("ZeroDivisionError")
  ELSE VRdmaxCot(a, bw_, z, fcd, v1, tan_theta, FDiv(F1, tan_theta))

\* lines 129-132, from the quantities in N and mm
VRdmaxNmm(a, bw_, d_, fck_, fyk_, fywk_) ==
  IF IsZero(a.gamma_c) THEN Raise("ZeroDivisionError")
  ELSE VRdmaxTan(a, bw_, FMul(F0_9, d_), FDiv(fck_, a.gamma_c), V1(fck_, fyk_, fywk_),
                 MathTan(a.theta))

\* lines 123-126, sL and sF the factors of the lengths and of the stresses
VRdmaxScaled(a, sL, sF) ==
  VRdmaxNmm(a, FMul(a.bw, sL), FMul(a.d, sL), FMul(a.fck, sF), FMul(a.fyk, sF),
            FMul(a.fywk, sF))

\* the call VRdmax(bw, d, fck, fyk, fywk, theta, alpha_cw, gamma_c, units, include_intermediates)
VRdmax(a) ==
  IF UnitsRejected(a.units) THEN Raise("ValueError")
  ELSE IF a.units = "kN-m-rad" THEN VRdmaxScaled(a, F1000, F0_001)
  ELSE VRdmaxScaled(a, F1, F1)

(***************************************************************************)
(* VRdc                                                                    *)
(***************************************************************************)
F0_02 == Lit(2, 100)
F2 == FromInt(2)
F200 == FromInt(200)
F0_035 == Lit(35, 1000)
F0_15 == Lit(15, 100)
F100 == FromInt(100)
F10Pow6 == FromInt(1000000)

\* a float below zero (-0.0 is not)
IsNeg(x) == x.k \in {"fin", "inf"} /\ x.s = 1

\* min(a, b) and max(a, b) of Python: the first argument unless the second beats it
PyMin(a, b) == IF FLt(b, a) THEN b ELSE a
PyMax(a, b) == IF FLt(a, b) THEN b ELSE a

\* a first branch that converts nothing
VRdcNoInputConversion(a) ==
  [Asl |-> a.Asl, fck |-> a.fck, sigma_cp |-> a.sigma_cp, bw |-> a.bw, d |-> a.d]

\* the arguments after the first units branch
VRdcInputs(a) ==
  IF a.units = "N-mm" THEN
    [Asl |-> a.Asl, fck |-> a.fck, sigma_cp |-> a.sigma_cp, bw |-> a.bw, d |-> a.d]
  ELSE IF a.units = "kN-m" THEN
    [Asl |-> FMul(a.Asl, F10Pow6),
     fck |-> FMul(a.fck, F0_001),
     sigma_cp |-> FMul(a.sigma_cp, F0_001),
     bw |-> FMul(a.bw, F1000),
     d |-> FMul(a.d, F1000)]
  ELSE
    [Asl |-> a.Asl, fck |-> a.fck, sigma_cp |-> a.sigma_cp, bw |-> a.bw, d |-> a.d]

\* the ratio without its cap
RhoLUnclamped(Asl, bwd) == FDiv(Asl, bwd)

\* the reinforcement ratio, bwd the product bw * d (not zero)
RhoL(Asl, bwd) == PyMin(FDiv(Asl, bwd), F0_02)

\* the size factor, root the float (200.0 / d) ** 0.5
KFactor(root) == PyMin(FAdd(F1, root), F2)

\* a second branch that converts for every tag but "N-mm"
VRdcValueElseScaled(v, units) == IF units = "N-mm" THEN v ELSE FMul(v, F0_001)

\* the value after the second units branch
VRdcValue(v, units) ==
  IF units = "N-mm" THEN v
  ELSE IF units = "kN-m" THEN FMul(v, F0_001)
  ELSE v

\* lines 216-229: the dictionary, its value in the caller's units
VRdcDict(a, rho_l, k, vmin, VRdc1, VRdc2) ==
  [type |-> "dict",
   rho_l |-> rho_l, k |-> k, vmin |-> vmin, k1 |-> F0_15,
   VRdc1 |-> VRdc1, VRdc2 |-> VRdc2,
   value |-> VRdcValue(PyMax(VRdc1, VRdc2), a.units)]

\* lines 213-214, x the float 100 * rho_l * fck
VRdcBoth(a, w, rho_l, k, vmin, x) ==
  VRdcDict(a, rho_l, k, vmin,
           FMul(FMul(FAdd(FMul(FMul(a.CRdc, k), MathPowThird(x)),
                          FMul(F0_15, w.sigma_cp)), w.bw), w.d),
           FMul(FMul(FAdd(vmin, FMul(F0_15, w.sigma_cp)), w.bw), w.d))

\* the square root of a negative fck is complex, which math.pow refuses when
\* 100 * rho_l * fck is negative and max refuses otherwise
VRdcRoots(a, w, rho_l, k, x) ==
  IF IsNeg(x) THEN Raise("ValueError")
  ELSE IF IsNeg(w.fck) THEN Raise("TypeError")
  ELSE VRdcBoth(a, w, rho_l, k, FMul(FMul(F0_035, FPow(k, 3, 2)), FPow(w.fck, 1, 2)), x)

\* line 210 on
VRdcFrom210(a, w, rho_l, k) == VRdcRoots(a, w, rho_l, k, FMul(FMul(F100, rho_l), w.fck))

\* line 209, ratio the float 200.0 / d: min refuses the complex root of a negative
VRdcSize(a, w, rho_l, ratio) ==
  IF IsNeg(ratio) THEN Raise("TypeError")
  ELSE VRdcFrom210(a, w, rho_l, KFactor(FPow(ratio, 1, 2)))

VRdcFrom209(a, w, rho_l) ==
  IF IsZero(w.d) THEN Raise("ZeroDivisionError")
  ELSE VRdcSize(a, w, rho_l, FDiv(F200, w.d))

\* line 208, bwd the float bw * d
VRdcRatio(a, w, bwd) ==
  IF IsZero(bwd) THEN Raise("ZeroDivisionError")
  ELSE VRdcFrom209(a, w, RhoL(w.Asl, bwd))

VRdcFrom208(a, w) == VRdcRatio(a, w, FMul(w.bw, w.d))

\* the call VRdc(CRdc, Asl, fck, sigma_cp, bw, d, units)
VRdc(a) == VRdcFrom208(a, VRdcInputs(a))

(***************************************************************************)
(* The calls.  A behaviour draws the arguments of one call, makes it, and  *)
(* may then make a second call whose arguments derive from the first       *)
(* (the same quantities in the other unit system, another fck, the         *)
(* default units), so that the two results can be compared.                *)
(***************************************************************************)
VARIABLES pc, args, ret, args2, ret2

vars == << pc, args, ret, args2, ret2 >>

NoCall == [type |-> "none"]

\* the float after x, for x "fin" whose significand is not all ones
NextUp(x) == [x EXCEPT !.m = BigAdd(x.m, << 1 >>)]

\* concrete strengths [N/mm2]; the first NumFck of them are drawn
NumFck == 3
FckClasses == << 20, 25, 90, 50, 30 >>
FckValues ==
  {FromInt(FckClasses[i]) : i \in 1..NumFck} \cup {NextUp(FromInt(FckClasses[2]))}

\* << fyk, fywk >> [N/mm2]: below, at and above fywk = 0.8 fyk
SteelPairs ==
  { << FromInt(500), FromInt(300) >>,
    << FromInt(500), FromInt(400) >>,
    << FromInt(500), FromInt(500) >>,
    << Lit(4004, 10), Lit(32032, 100) >> }

ThetaValues == {Zero(0), PiOver4, MathPi, Theta0_4}
GammaCValues == {Lit(15, 10), Zero(0)}
VRdmaxDepths == {Zero(0), FromInt(539)}
VRdmaxTags == {"N-mm-rad", "kN-m-rad", "bad-unit"}

\* the same quantities for units = "kN-m-rad": lengths in m, strengths in kN/m2
ToKNmRad(a) ==
  [a EXCEPT !.bw = FDiv(a.bw, F1000), !.d = FDiv(a.d, F1000),
            !.fck = FMul(a.fck, F1000), !.fyk = FMul(a.fyk, F1000),
            !.fywk = FMul(a.fywk, F1000), !.units = "kN-m-rad"]

VRdmaxCallsMM ==
  { [bw |-> FromInt(250), d |-> d, fck |-> fck, fyk |-> st[1], fywk |-> st[2],
     theta |-> th, alpha_cw |-> F1, gamma_c |-> gc, units |-> u,
     include_intermediates |-> ii] :
    d \in VRdmaxDepths, fck \in FckValues, st \in SteelPairs, th \in ThetaValues,
    gc \in GammaCValues, u \in VRdmaxTags \ {"kN-m-rad"}, ii \in BOOLEAN }

VRdmaxCalls ==
  VRdmaxCallsMM \cup {ToKNmRad(a) : a \in {b \in VRdmaxCallsMM : b.units = "N-mm-rad"}}

InitVRdmax ==
  /\ pc = "ready"
  /\ args \in VRdmaxCalls
  /\ ret = NoCall
  /\ args2 = NoCall
  /\ ret2 = NoCall

CallVRdmax ==
  /\ pc = "ready"
  /\ ret' = VRdmax(args)
  /\ pc' = "returned"
  /\ UNCHANGED << args, args2, ret2 >>

\* the call again with the quantities of an N-mm-rad call given in kN and m
RoundTripVRdmax ==
  /\ pc = "returned"
  /\ args.units = "N-mm-rad"
  /\ args2' = ToKNmRad(args)
  /\ ret2' = VRdmax(args2')
  /\ pc' = "roundtrip"
  /\ UNCHANGED << args, ret >>

\* the call again with a larger fck and nothing else changed
VaryFck ==
  /\ pc = "returned"
  /\ ~Raised(ret)
  /\ \E f \in FckValues :
        LET f2 == IF args.units = "kN-m-rad" THEN FMul(f, F1000) ELSE f
        IN  /\ FLt(args.fck, f2)
            /\ args2' = [args EXCEPT !.fck = f2]
            /\ ret2' = VRdmax(args2')
  /\ pc' = "varied"
  /\ UNCHANGED << args, ret >>

NextVRdmax == CallVRdmax \/ RoundTripVRdmax \/ VaryFck

SpecVRdmax == InitVRdmax /\ [][NextVRdmax]_vars

\* effective depths [mm]; the first NumDepth of them are drawn
NumDepth == 5
Depths == << 539, 100, 200, 0, -539, 1000 >>
DepthValues == {FromInt(Depths[i]) : i \in 1..NumDepth}
AslValues == {FromInt(308), FromInt(3000)}
VRdcFckValues == {FromInt(20), FromInt(30)}
SigmaCpValues == {Zero(0), Lit(66667, 100000)}
VRdcTags == {"N-mm", "kN-m", "kNm"}

\* the same quantities for units = "kN-m": lengths in m, areas in m2, stresses in kN/m2
ToKNm(a) ==
  [a EXCEPT !.Asl = FDiv(a.Asl, F10Pow6), !.fck = FMul(a.fck, F1000),
            !.sigma_cp = FMul(a.sigma_cp, F1000), !.bw = FDiv(a.bw, F1000),
            !.d = FDiv(a.d, F1000), !.units = "kN-m"]

VRdcCallsMM ==
  { [CRdc |-> Lit(12, 100), Asl |-> Asl, fck |-> fck, sigma_cp |-> sc,
     bw |-> FromInt(250), d |-> d, units |-> u] :
    Asl \in AslValues, fck \in VRdcFckValues, sc \in SigmaCpValues,
    d \in DepthValues, u \in VRdcTags \ {"kN-m"} }

VRdcCalls ==
  VRdcCallsMM \cup {ToKNm(a) : a \in {b \in VRdcCallsMM : b.units = "N-mm"}}

InitVRdc ==
  /\ pc = "ready"
  /\ args \in VRdcCalls
  /\ ret = NoCall
  /\ args2 = NoCall
  /\ ret2 = NoCall

CallVRdc ==
  /\ pc = "ready"
  /\ ret' = VRdc(args)
  /\ pc' = "returned"
  /\ UNCHANGED << args, args2, ret2 >>

\* the arguments of a kN-m call converted by the caller, for a call with units = "N-mm"
ConvertedArgs(a) ==
  [a EXCEPT !.Asl = FMul(a.Asl, F10Pow6), !.fck = FMul(a.fck, F0_001),
            !.sigma_cp = FMul(a.sigma_cp, F0_001), !.bw = FMul(a.bw, F1000),
            !.d = FMul(a.d, F1000), !.units = "N-mm"]

ConvertedVRdc ==
  /\ pc = "returned"
  /\ args.units = "kN-m"
  /\ args2' = ConvertedArgs(args)
  /\ ret2' = VRdc(args2')
  /\ pc' = "converted"
  /\ UNCHANGED << args, ret >>

\* the call again with the same numbers and the default units
DefaultUnitsVRdc ==
  /\ pc = "returned"
  /\ args.units # "N-mm"
  /\ args2' = [args EXCEPT !.units = "N-mm"]
  /\ ret2' = VRdc(args2')
  /\ pc' = "defaulted"
  /\ UNCHANGED << args, ret >>

NextVRdc == CallVRdc \/ ConvertedVRdc \/ DefaultUnitsVRdc

SpecVRdc == InitVRdc /\ [][NextVRdc]_vars

(***************************************************************************)
(* Properties of VRdmax, checked under SpecVRdmax.                         *)
(***************************************************************************)
Called == pc # "ready"

SecondCalled == pc \in {"roundtrip", "varied", "converted", "defaulted"}

\* C1: a units value other than the two recognized tags ends in ValueError and
\* nothing is returned, whatever the other arguments are (theta = 0 and
\* gamma_c = 0 included); with a recognized tag ValueError is never raised.
UnitsValidated ==
  /\ Called =>
       IF args.units \in {"N-mm-rad", "kN-m-rad"}
       THEN ret.type # "ValueError"
       ELSE ret = Raise("ValueError")
  /\ SecondCalled => args2.units \in {"N-mm-rad", "kN-m-rad"} /\ ret2.type # "ValueError"

\* an unrecognized tag with theta = 0 and gamma_c = 0: the units check comes first
BadUnitsDegenerate ==
  /\ pc = "returned"
  /\ args.units = "bad-unit"
  /\ args.theta.k = "zero"
  /\ args.gamma_c.k = "zero"
  /\ ret = Raise("ValueError")

\* C2: for units = "N-mm-rad" the value is alpha_cw * bw * z * v1 * fcd /
\* (tan(theta) + cot(theta)) with z = 0.9 * d, fcd = fck / gamma_c, v1 = 0.6
\* when fywk < 0.8 * fyk and v1 = 0.6 * (1 - fck / 250) otherwise, equality
\* included; v1 has no other case for fck <= 60 and no floor of 0.5.
FormulaNmm ==
  (Called /\ args.units = "N-mm-rad" /\ ~Raised(ret)) =>
    LET z == FMul(F0_9, args.d)
        fcd == FDiv(args.fck, args.gamma_c)
        v1 == IF FLt(args.fywk, FMul(F0_8, args.fyk))
              THEN F0_6
              ELSE FMul(F0_6, FSub(F1, FDiv(args.fck, F250)))
        t == MathTan(args.theta)
        value == FDiv(FMul(FMul(FMul(FMul(args.alpha_cw, args.bw), z), v1), fcd),
                      FAdd(t, FDiv(F1, t)))
    IN  /\ ret.value = value
        /\ args.include_intermediates =>
             ret.z = z /\ ret.fcd = fcd /\ ret.v1 = v1

\* fck = 90 with fywk = 0.8 * fyk exactly: the reduction applies and v1 is below 0.5
ReducedBelowFloor ==
  /\ pc = "returned"
  /\ args.units = "N-mm-rad"
  /\ ret.type = "VRdmaxResult"
  /\ args.fck = FromInt(90)
  /\ FEq(args.fywk, FMul(F0_8, args.fyk))
  /\ FLt(ret.v1, FDiv(FromInt(1), FromInt(2)))
  /\ FLt(Zero(0), ret.value)

FAbs(x) == IF x.k = "nan" THEN x ELSE [x EXCEPT !.s = 0]

\* the relative tolerance of the comparisons "within floating-point tolerance"
RelTol == FDiv(FromInt(1), FromInt(1000000000))

\* |x - y| <= RelTol * max(|x|, |y|)
Close(x, y) == FLe(FAbs(FSub(x, y)), FMul(RelTol, PyMax(FAbs(x), FAbs(y))))

\* C3: the call in N and mm and the call with the same quantities in kN and m
\* agree: the first value is 1000 times the second within tolerance, and both
\* calls take the same v1 branch.
RoundTripAgrees ==
  pc = "roundtrip" =>
    IF Raised(ret) \/ Raised(ret2) THEN ret = ret2
    ELSE /\ Close(ret.value, FMul(F1000, ret2.value))
         /\ args.include_intermediates => Close(ret.v1, ret2.v1)

\* C4: with include_intermediates = True the returned object is a dict with
\* the keys z, fcd, v1 and value.
IntermediatesAreDict ==
  (Called /\ args.include_intermediates /\ ~Raised(ret)) =>
    /\ ret.type = "dict"
    /\ {"z", "fcd", "v1", "value"} \subseteq DOMAIN ret

\* the call of the docstring's example, the other arguments at their defaults
ExampleCall ==
  [bw |-> FromInt(250), d |-> FromInt(539), fck |-> FromInt(20),
   fyk |-> FromInt(500), fywk |-> FromInt(500), theta |-> PiOver4,
   alpha_cw |-> F1, gamma_c |-> Lit(15, 10), units |-> "N-mm-rad",
   include_intermediates |-> FALSE]

\* C5: the documented example VRdmax(250, 539, 20, 500, 500, pi/4) returns 150000.0.
WorkedExample ==
  (pc = "returned" /\ args = ExampleCall) =>
    ret = [type |-> "float", value |-> FromInt(150000)]

\* C6 as stated: with a recognized tag the call never ends in an error, for
\* d = 0, theta = 0 and theta = pi too (gamma_c = 0 is left out here).
NeverRaisesOnDegenerate ==
  (Called /\ args.units \in {"N-mm-rad", "kN-m-rad"} /\ args.gamma_c.k # "zero") =>
    ~Raised(ret)

\* C6, amended: with a recognized tag, theta = 0 (tan(theta) = 0) and gamma_c = 0
\* end in ZeroDivisionError; every other call, d = 0 and theta = pi included,
\* returns a finite value.  The error outcomes of VRdmax are the units
\* ValueError and ZeroDivisionError.
DegenerateOutcomes ==
  /\ (Called /\ args.units \in {"N-mm-rad", "kN-m-rad"}) =>
       IF args.theta.k = "zero" \/ args.gamma_c.k = "zero"
       THEN ret = Raise("ZeroDivisionError")
       ELSE ~Raised(ret) /\ IsFinite(ret.value)
  /\ Called => ret.type \notin {"TypeError"}

\* theta = 0 with everything else in order: the division by tan(theta) raises
ThetaZeroRaises ==
  /\ pc = "returned"
  /\ args.units = "N-mm-rad"
  /\ args.theta.k = "zero"
  /\ args.gamma_c.k # "zero"
  /\ args.d.k # "zero"
  /\ ret = Raise("ZeroDivisionError")

\* the stresses as the function works with them [N/mm2]
StressNmm(x, units) == IF units = "kN-m-rad" THEN FMul(x, F0_001) ELSE FMul(x, F1)

\* two calls that differ in fck only, fck1 < fck2, in the branch fywk < 0.8 fyk,
\* with positive bw, d, alpha_cw, gamma_c and theta in (0, pi/2)
LowDuctilityPair ==
  /\ pc = "varied"
  /\ FLt(args.fck, args2.fck)
  /\ [args2 EXCEPT !.fck = args.fck] = args
  /\ FLt(StressNmm(args.fywk, args.units), FMul(F0_8, StressNmm(args.fyk, args.units)))
  /\ FLt(Zero(0), args.bw) /\ FLt(Zero(0), args.d)
  /\ FLt(Zero(0), args.alpha_cw) /\ FLt(Zero(0), args.gamma_c)
  /\ args.theta \in {PiOver4, Theta0_4}

\* C10 as stated: the larger fck gives a strictly larger fcd and a strictly
\* larger value.
StrictlyMonotoneInFck ==
  LowDuctilityPair =>
    /\ FLt(ret.value, ret2.value)
    /\ args.include_intermediates =>
         FLt(ret.fcd, ret2.fcd) /\ ret.v1 = F0_6 /\ ret2.v1 = F0_6

\* C10, amended: the larger fck gives an fcd and a value that are at least as
\* large (two fck one unit in the last place apart can round to the same fcd
\* and the same value); v1 stays 0.6 and the branch does not depend on fck.
MonotoneInFck ==
  LowDuctilityPair =>
    /\ FLe(ret.value, ret2.value)
    /\ ~Raised(ret2)
    /\ args.include_intermediates =>
         FLe(ret.fcd, ret2.fcd) /\ ret.v1 = F0_6 /\ ret2.v1 = F0_6

\* fck = 25 and the next float: fcd and the value are the same
AdjacentFckTie ==
  /\ LowDuctilityPair
  /\ args.include_intermediates
  /\ FEq(ret.fcd, ret2.fcd)
  /\ FEq(ret.value, ret2.value)
  /\ FLt(Zero(0), ret.value)

(***************************************************************************)
(* Properties of VRdc, checked under SpecVRdc.                             *)
(***************************************************************************)
\* C7: in every returned mapping rho_l <= 0.02 and k <= 2.0; rho_l is 0.02
\* when Asl / (bw * d) in mm exceeds it and the ratio otherwise, k is 2.0
\* when 1 + sqrt(200 / d) exceeds it and that sum otherwise.
Clamped ==
  (Called /\ ret.type = "dict") =>
    LET w == VRdcInputs(args)
        ratio == FDiv(w.Asl, FMul(w.bw, w.d))
        size == FAdd(F1, FPow(FDiv(F200, w.d), 1, 2))
    IN  /\ FLe(ret.rho_l, F0_02)
        /\ FLe(ret.k, F2)
        /\ ret.rho_l = IF FLt(F0_02, ratio) THEN F0_02 ELSE ratio
        /\ ret.k = IF FLt(F2, size) THEN F2 ELSE size

\* a kN-m call whose ratio and size factor are both over their caps
BothClamped ==
  /\ pc = "returned"
  /\ args.units = "kN-m"
  /\ ret.type = "dict"
  /\ FLt(F0_02, FDiv(FMul(args.Asl, F10Pow6),
                     FMul(FMul(args.bw, F1000), FMul(args.d, F1000))))
  /\ FLt(FMul(args.d, F1000), F200)
  /\ ret.rho_l = F0_02
  /\ ret.k = F2

\* C8: a units value other than "N-mm" and "kN-m" is not rejected: the call
\* ends as the call with the same numbers and units = "N-mm" does, with the
\* same mapping in every field.
UnknownUnitsAsNmm ==
  (pc = "defaulted" /\ args.units \notin {"N-mm", "kN-m"}) =>
    /\ args2 = [args EXCEPT !.units = "N-mm"]
    /\ ret2 = ret
    /\ ret.type # "ValueError"

\* an unrecognized tag that returned a mapping
UnknownUnitsReturned ==
  /\ pc = "defaulted"
  /\ args.units = "kNm"
  /\ ret.type = "dict"
  /\ ret2 = ret
  /\ FLt(Zero(0), ret.value)

\* C9: the kN-m call returns the rho_l, k, vmin, k1, VRdc1 and VRdc2 of the
\* N-mm call on the converted arguments and 0.001 times its value; the value
\* is max(VRdc1, VRdc2) of the mapping for "N-mm" and 0.001 times it for "kN-m".
ValueOnlyConverted ==
  /\ pc = "converted" =>
       IF Raised(ret) \/ Raised(ret2) THEN ret = ret2
       ELSE /\ [ret EXCEPT !.value = ret2.value] = ret2
            /\ ret.value = FMul(ret2.value, F0_001)
  /\ (Called /\ ret.type = "dict" /\ args.units = "N-mm") =>
       ret.value = PyMax(ret.VRdc1, ret.VRdc2)
  /\ (Called /\ ret.type = "dict" /\ args.units = "kN-m") =>
       ret.value = FMul(PyMax(ret.VRdc1, ret.VRdc2), F0_001)

\* a kN-m call and its N-mm twin, both with a mapping
ConvertedPair ==
  /\ pc = "converted"
  /\ ret.type = "dict"
  /\ ret2.type = "dict"
  /\ ret.VRdc1 = ret2.VRdc1
  /\ ret.value # ret2.value
  /\ args2.units = "N-mm"

====
